---- MODULE Spec2Model ----
(***************************************************************************)
(* Model of the stated scope guard (src/src/lib.rs) and of its two boolean *)
(* specialisations (src/src/dismissible.rs, src/src/dismissable.rs).       *)
(*                                                                         *)
(* One guard is followed from its construction to the end of its drop.     *)
(* Option<T> is a sequence of length 0 (None) or 1 (Some).                 *)
(***************************************************************************)
EXTENDS Integers, Sequences, FiniteSets, TLC

\* ---- bounds ------------------------------------------------------------
MaxVal == 2          \* wrapped values of type T are 0..MaxVal
MaxOps == 3          \* public calls made on the guard before it is dropped

\* ---- domains of the type parameters ------------------------------------
Values == 0..MaxVal
Unit == 0                                   \* the only value of type ()
States == {"pending", "done", "failed"}     \* S of a plain guard
Kinds == {"plain", "dismissible", "dismissable"}

ValuesOf(k) == IF k = "dismissable" THEN {Unit} ELSE Values
StatesOf(k) == IF k = "plain" THEN States ELSE BOOLEAN

\* the closures a guard can store in its callback slot
Callbacks == {"callback", "dismissible_closure", "dismissable_closure"}

None == <<>>
Some(x) == <<x>>
is_some(o) == Len(o) = 1

\* Option::unwrap_unchecked: undefined behaviour on None, where the build may
\* produce any value of the type (any) -- the caller records that it happened.
unwrap_unchecked(o, any) == IF is_some(o) THEN {o[1]} ELSE any

VARIABLES
    kind,           \* which constructor built the guard
    self,           \* the ScopeGuard struct: [value, state, callback]
    pc,             \* position of the guard in its life
    local,          \* the locals of drop: [value, callback]
    calls,          \* invocations of the stored callback F: <<value, state>>
    user_calls,     \* invocations of the callback the user handed in
    history,        \* the public calls made so far, oldest first
    new_args,       \* what the constructor was given: [value, state]
    ub,             \* an unchecked unwrap met an empty slot
    failed          \* the user's callback panicked inside drop

vars == <<kind, self, pc, local, calls, user_calls, history, new_args, ub, failed>>

\* ---- constructors ------------------------------------------------------
\* ScopeGuard::new
new(value, state, callback) ==
    [value |-> Some(value), state |-> state, callback |-> Some(callback)]

\* new_dismissible that builds the guard already dismissed
new_dismissible_disarmed(value) == new(value, FALSE, "dismissible_closure")

new_dismissible(value) == new(value, TRUE, "dismissible_closure")

new_dismissable == new(Unit, TRUE, "dismissable_closure")

\* ---- methods, as functions of the struct -------------------------------
\* set_state that also empties the value slot
set_state_takes_value(g, state) == [g EXCEPT !.state = state, !.value = None]

\* set_state that keeps a state once it was changed from the constructor's
set_state_first_wins(g, state) == IF g.state = new_args.state THEN [g EXCEPT !.state = state] ELSE g

\* ScopeGuard::set_state
set_state(g, state) == [g EXCEPT !.state = state]

\* dismiss that flips the flag instead of clearing it
dismissible_dismiss_toggles(g) == set_state(g, ~g.state)

\* DismissibleScopeGuard::dismiss
dismissible_dismiss(g) == set_state(g, FALSE)

\* DismissableScopeGuard::dismiss
dismissable_dismiss(g) == set_state(g, FALSE)

dismiss(k, g) == IF k = "dismissable" THEN dismissable_dismiss(g)
                 ELSE dismissible_dismiss(g)

\* deref that hands out the value the guard was built with
deref_stale(g, k) == {new_args.value}

\* Deref::deref: the values a read can return
deref(g, k) == unwrap_unchecked(g.value, ValuesOf(k))

\* deref_mut whose write lands in a copy
deref_mut_on_copy(g, w) == g

\* deref_mut that takes the value out of its slot to hand it out
deref_mut_takes(g, w) == [g EXCEPT !.value = None]

\* DerefMut::deref_mut followed by a write of w through the reference
deref_mut(g, w) == IF is_some(g.value) THEN [g EXCEPT !.value = Some(w)] ELSE g

\* ---- the closures ------------------------------------------------------
\* each gives the invocations of the user's callback that one call makes
\* the closure without its check of the state
dismissible_closure_unchecked(value, state) == << <<value>> >>

\* the closure with its check of the state negated
dismissible_closure_negated(value, state) == IF ~state THEN << <<value>> >> ELSE <<>>

dismissible_closure(value, state) == IF state THEN << <<value>> >> ELSE <<>>

dismissable_closure(value, state) == IF state THEN << <<>> >> ELSE <<>>

\* the callback of a plain guard is the user's callback itself
plain_callback(value, state) == << <<value, state>> >>

invoke(cb, value, state) ==
    CASE cb = "dismissible_closure" -> dismissible_closure(value, state)
      [] cb = "dismissable_closure" -> dismissable_closure(value, state)
      [] OTHER -> plain_callback(value, state)

\* ---- initial states ----------------------------------------------------
Init ==
    /\ kind \in Kinds
    /\ \E v \in ValuesOf(kind), s \in StatesOf(kind) :
          /\ new_args = [value |-> v, state |-> IF kind = "plain" THEN s ELSE TRUE]
          /\ self = CASE kind = "plain" -> new(v, s, "callback")
                      [] kind = "dismissible" -> new_dismissible(v)
                      [] OTHER -> new_dismissable
    /\ pc = "alive"
    /\ local = [value |-> None, callback |-> None]
    /\ calls = <<>>
    /\ user_calls = <<>>
    /\ history = <<>>
    /\ ub = FALSE
    /\ failed = FALSE

Live == pc = "alive" /\ Len(history) < MaxOps

Log(op, arg) == history' = Append(history, [op |-> op, arg |-> arg])

\* ---- public calls on a live guard --------------------------------------
Deref ==
    /\ Live
    /\ \E r \in deref(self, kind) : Log("deref", r)
    /\ ub' = (ub \/ ~is_some(self.value))
    /\ UNCHANGED <<kind, self, pc, local, calls, user_calls, new_args, failed>>

DerefMut ==
    /\ Live
    /\ \E w \in ValuesOf(kind) :
          /\ self' = deref_mut(self, w)
          /\ Log("deref_mut", w)
    /\ ub' = (ub \/ ~is_some(self.value))
    /\ UNCHANGED <<kind, pc, local, calls, user_calls, new_args, failed>>

\* set_state that notifies the callback of the new state
SetState_notifies ==
    /\ Live
    /\ \E s \in StatesOf(kind) :
          /\ self' = set_state(self, s)
          /\ Log("set_state", s)
          /\ calls' = Append(calls, <<self.value[1], s>>)
    /\ UNCHANGED <<kind, pc, local, user_calls, new_args, ub, failed>>

SetState ==
    /\ Live
    /\ \E s \in StatesOf(kind) :
          /\ self' = set_state(self, s)
          /\ Log("set_state", s)
    /\ UNCHANGED <<kind, pc, local, calls, user_calls, new_args, ub, failed>>

Dismiss ==
    /\ Live
    /\ kind # "plain"
    /\ self' = dismiss(kind, self)
    /\ Log("dismiss", Unit)
    /\ UNCHANGED <<kind, pc, local, calls, user_calls, new_args, ub, failed>>

\* ---- Drop::drop, statement by statement --------------------------------
\* drop that puts the state back to the constructor's while taking the value
DropTakeValue_resets_state ==
    /\ pc = "alive"
    /\ \E v \in unwrap_unchecked(self.value, ValuesOf(kind)) :
          local' = [local EXCEPT !.value = Some(v)]
    /\ self' = [self EXCEPT !.value = None, !.state = new_args.state]
    /\ ub' = (ub \/ ~is_some(self.value))
    /\ pc' = "value_taken"
    /\ UNCHANGED <<kind, calls, user_calls, history, new_args, failed>>

\* let value = self.value.take().unwrap_unchecked();
DropTakeValue ==
    /\ pc = "alive"
    /\ \E v \in unwrap_unchecked(self.value, ValuesOf(kind)) :
          local' = [local EXCEPT !.value = Some(v)]
    /\ self' = [self EXCEPT !.value = None]
    /\ ub' = (ub \/ ~is_some(self.value))
    /\ pc' = "value_taken"
    /\ UNCHANGED <<kind, calls, user_calls, history, new_args, failed>>

\* drop that reads the callback through as_ref and leaves it in its slot
DropTakeCallback_keeps ==
    /\ pc = "value_taken"
    /\ \E c \in unwrap_unchecked(self.callback, Callbacks) :
          local' = [local EXCEPT !.callback = Some(c)]
    /\ ub' = (ub \/ ~is_some(self.callback))
    /\ pc' = "callback_taken"
    /\ UNCHANGED <<kind, self, calls, user_calls, history, new_args, failed>>

\* let callback = self.callback.take().unwrap_unchecked();
DropTakeCallback ==
    /\ pc = "value_taken"
    /\ \E c \in unwrap_unchecked(self.callback, Callbacks) :
          local' = [local EXCEPT !.callback = Some(c)]
    /\ self' = [self EXCEPT !.callback = None]
    /\ ub' = (ub \/ ~is_some(self.callback))
    /\ pc' = "callback_taken"
    /\ UNCHANGED <<kind, calls, user_calls, history, new_args, failed>>

\* drop that returns early, without the call, when the state is the one the
\* guard was built with
DropCall_skips ==
    /\ pc = "callback_taken"
    /\ IF self.state = new_args.state
         THEN UNCHANGED <<calls, user_calls>>
         ELSE /\ calls' = Append(calls, <<local.value[1], self.state>>)
              /\ user_calls' = user_calls \o invoke(local.callback[1], local.value[1], self.state)
    /\ local' = [value |-> None, callback |-> None]
    /\ pc' = "done"
    /\ failed' = FALSE
    /\ UNCHANGED <<kind, self, history, new_args, ub>>

\* drop that catches the unwind of its callback and returns normally
DropCall_catches ==
    /\ pc = "callback_taken"
    /\ calls' = Append(calls, <<local.value[1], self.state>>)
    /\ user_calls' = user_calls \o invoke(local.callback[1], local.value[1], self.state)
    /\ local' = [value |-> None, callback |-> None]
    /\ \E panics \in BOOLEAN : failed' = (panics /\ user_calls' # user_calls)
    /\ pc' = "done"
    /\ UNCHANGED <<kind, self, history, new_args, ub>>

\* callback(value, &self.state); the user's callback, when it is reached,
\* either returns or panics, and a panic unwinds out of drop.
DropCall ==
    /\ pc = "callback_taken"
    /\ calls' = Append(calls, <<local.value[1], self.state>>)
    /\ user_calls' = user_calls \o invoke(local.callback[1], local.value[1], self.state)
    /\ local' = [value |-> None, callback |-> None]
    /\ \E panics \in BOOLEAN : failed' = (panics /\ user_calls' # user_calls)
    /\ pc' = IF failed' THEN "panicked" ELSE "done"
    /\ UNCHANGED <<kind, self, history, new_args, ub>>

Next ==
    \/ Deref
    \/ DerefMut
    \/ SetState
    \/ Dismiss
    \/ DropTakeValue
    \/ DropTakeCallback
    \/ DropCall

Spec == Init /\ [][Next]_vars

\* ---- reading the history ----------------------------------------------
Max(S) == CHOOSE x \in S : \A y \in S : y <= x

Calls(h, ops) == {i \in 1..Len(h) : h[i].op \in ops}

Last(h) == h[Len(h)]

\* the value left by the last write through deref_mut
LastWrite(h) ==
    IF Calls(h, {"deref_mut"}) = {} THEN new_args.value
    ELSE h[Max(Calls(h, {"deref_mut"}))].arg

\* the argument of the last set_state call, dismiss being set_state(false)
LastSetState(h) ==
    LET I == Calls(h, {"set_state", "dismiss"})
    IN  IF I = {} THEN new_args.state
        ELSE IF h[Max(I)].op = "dismiss" THEN FALSE ELSE h[Max(I)].arg

Finished == pc \in {"done", "panicked"}

\* this step is a public call op
Step(op) == Len(history') = Len(history) + 1 /\ Last(history').op = op

\* ---- C1 ---------------------------------------------------------------
\* C1: when drop has finished, the callback given to new has been invoked
\* exactly once in total; at no time has it been invoked twice.
C1_CallbackExactlyOnce ==
    /\ Len(calls) <= 1
    /\ Finished => Len(calls) = 1

C1_Witness ==
    /\ pc = "done"
    /\ Len(calls) = 1
    /\ Calls(history, {"deref"}) # {}
    /\ Calls(history, {"deref_mut"}) # {}
    /\ Calls(history, {"set_state"}) # {}

\* ---- C2 ---------------------------------------------------------------
\* C2: while the guard is alive the callback has been invoked zero times,
\* whatever calls were made; the only step that invokes it is the call
\* statement of drop, and it is the first invocation.
C2_NoCallWhileAlive ==
    /\ [](pc = "alive" => calls = <<>> /\ user_calls = <<>>)
    /\ [][calls' # calls => pc = "callback_taken" /\ calls = <<>>]_vars

C2_Witness ==
    /\ pc = "alive"
    /\ calls = <<>>
    /\ Len(history) >= 2
    /\ Calls(history, {"set_state"}) # {}
    /\ Calls(history, {"deref_mut"}) # {}

\* ---- C3 ---------------------------------------------------------------
\* C3: the state the callback receives is the argument of the last
\* set_state call, or the constructor's state when there was none.
C3_CallbackSeesLastState ==
    calls # <<>> => calls[1][2] = LastSetState(history)

C3_Witness ==
    /\ kind = "plain"
    /\ Finished
    /\ \E i, j \in Calls(history, {"set_state"}) :
          /\ i < j
          /\ history[i].arg # history[j].arg
          /\ history[i].arg # new_args.state
          /\ j = Max(Calls(history, {"set_state"}))
          /\ calls[1][2] = history[j].arg

\* ---- C4 ---------------------------------------------------------------
\* C4: the value the callback receives is the value left by the last write
\* through deref_mut, or the constructor's value when there was none.
C4_CallbackSeesLastValue ==
    calls # <<>> => calls[1][1] = LastWrite(history)

C4_Witness ==
    /\ Finished
    /\ \E i, j \in Calls(history, {"deref_mut"}) :
          /\ i < j
          /\ history[i].arg # history[j].arg
          /\ history[j].arg # new_args.value
          /\ j = Max(Calls(history, {"deref_mut"}))
          /\ calls[1][1] = history[j].arg

\* ---- C5 ---------------------------------------------------------------
\* C5: a set_state(s) call on a live guard stores s in the state field and
\* changes nothing else: the value is the same, both slots stay occupied,
\* and no callback is invoked.
C5_SetStateFrame ==
    [][Step("set_state") =>
          /\ self'.state = Last(history').arg
          /\ self'.value = self.value
          /\ self'.callback = self.callback
          /\ is_some(self'.value) /\ is_some(self'.callback)
          /\ calls' = calls /\ user_calls' = user_calls
          /\ pc' = pc /\ local' = local]_vars

C5_Witness ==
    /\ pc = "alive"
    /\ Len(history) >= 2
    /\ Last(history).op = "set_state"
    /\ self.state = Last(history).arg
    /\ self.state # new_args.state
    /\ self.value = Some(LastWrite(history))
    /\ LastWrite(history) # new_args.value

\* ---- C6 ---------------------------------------------------------------
\* C6: a read through deref returns the value of the most recent deref_mut
\* write (the constructor's value if none), whatever set_state calls came
\* in between, and the read changes nothing of the guard.
C6_DerefReadsLastWrite ==
    [][Step("deref") =>
          /\ Last(history').arg = LastWrite(history)
          /\ self' = self
          /\ calls' = calls /\ user_calls' = user_calls]_vars

C6_Witness ==
    /\ Len(history) >= 3
    /\ Last(history).op = "deref"
    /\ history[Len(history) - 1].op = "set_state"
    /\ history[Len(history) - 2].op = "deref_mut"
    /\ Last(history).arg = history[Len(history) - 2].arg
    /\ Last(history).arg # new_args.value

\* ---- C7 ---------------------------------------------------------------
\* what the user's callback of a boolean guard is handed: the value for a
\* dismissible guard, nothing for a dismissable one
UserArgs(k, v) == IF k = "dismissible" THEN <<v>> ELSE <<>>

\* C7: a dismissible or dismissable guard on which only deref, deref_mut
\* and dismiss were used has, once dropped, invoked the user's callback
\* exactly once with the final value if dismiss was never called, and not
\* at all if dismiss was called.
C7_DismissDecidesCallback ==
    (kind # "plain" /\ Finished /\ Calls(history, {"set_state"}) = {}) =>
        IF Calls(history, {"dismiss"}) = {}
        THEN user_calls = << UserArgs(kind, LastWrite(history)) >>
        ELSE user_calls = <<>>

C7_Witness ==
    /\ kind = "dismissible"
    /\ pc = "done"
    /\ Calls(history, {"set_state"}) = {}
    /\ Calls(history, {"dismiss"}) # {}
    /\ Calls(history, {"deref_mut"}) # {}
    /\ LastWrite(history) # new_args.value
    /\ Len(calls) = 1
    /\ user_calls = <<>>

\* ---- C8 ---------------------------------------------------------------
\* C8: once dismiss was called on a boolean guard, the user's callback is
\* not called when the guard is dropped, whatever public calls (deref,
\* deref_mut, set_state, dismiss) came between the dismiss and the drop.
C8_DismissedNeverCalls ==
    (kind # "plain" /\ Finished /\ Calls(history, {"dismiss"}) # {}) =>
        user_calls = <<>>

\* ---- C9 ---------------------------------------------------------------
\* C9: the user's callback of a boolean guard is invoked exactly once at
\* drop for every sequence of deref, deref_mut and set_state calls that
\* contains no dismiss call.
C9_UndismissedAlwaysCalls ==
    (kind # "plain" /\ Finished /\ Calls(history, {"dismiss"}) = {}) =>
        Len(user_calls) = 1

\* ---- C10 --------------------------------------------------------------
\* C10: dismiss is idempotent: a dismiss that directly follows a dismiss
\* leaves the guard as it was (state false, same value, no callback
\* invoked), and a guard dropped right after it behaves as after one
\* dismiss: the stored closure runs once and the user's callback never.
C10_DismissIdempotent ==
    /\ [][(Step("dismiss") /\ history # <<>> /\ Last(history).op = "dismiss") =>
            /\ self' = self
            /\ self'.state = FALSE
            /\ calls' = calls /\ user_calls' = user_calls]_vars
    /\ []((Finished /\ history # <<>> /\ Last(history).op = "dismiss") =>
            Len(calls) = 1 /\ user_calls = <<>>)

C10_Witness ==
    /\ pc = "done"
    /\ Len(history) >= 2
    /\ Last(history).op = "dismiss"
    /\ history[Len(history) - 1].op = "dismiss"
    /\ self.state = FALSE
    /\ user_calls = <<>>

\* ---- C11 --------------------------------------------------------------
\* C11: when the callback panics inside drop, the panic is the outcome of
\* drop (drop does not complete normally), drop completes normally only
\* when nothing panicked, and the callback was invoked once, not twice.
C11_PanicPropagates ==
    /\ failed => pc = "panicked" /\ Len(calls) = 1 /\ Len(user_calls) = 1
    /\ pc = "panicked" => failed
    /\ pc = "done" => ~failed

C11_Witness ==
    /\ failed
    /\ pc = "panicked"
    /\ Len(calls) = 1
    /\ Calls(history, {"set_state"}) # {}
    /\ Calls(history, {"deref_mut"}) # {}

\* ---- C12 --------------------------------------------------------------
\* C12: as long as drop has not started, the value slot and the callback
\* slot are both occupied, and no unchecked unwrap (in deref, deref_mut or
\* drop) ever meets an empty slot.
C12_SlotsOccupiedWhileAlive ==
    /\ pc = "alive" => is_some(self.value) /\ is_some(self.callback)
    /\ ~ub

C12_Witness ==
    /\ pc = "alive"
    /\ kind = "dismissible"
    /\ Calls(history, {"deref_mut"}) # {}
    /\ Calls(history, {"set_state"}) # {}
    /\ Calls(history, {"dismiss"}) # {}
    /\ is_some(self.value) /\ is_some(self.callback)

\* ---- C13 --------------------------------------------------------------
\* what a step may do to the slots, and when the callback may be invoked
C13_SlotSteps ==
    /\ (is_some(self'.value) # is_some(self.value)) =>
          (pc = "alive" /\ pc' = "value_taken" /\ self'.value = None)
    /\ (is_some(self'.callback) # is_some(self.callback)) =>
          (pc = "value_taken" /\ pc' = "callback_taken" /\ self'.callback = None)
    /\ (calls' # calls) =>
          (~is_some(self.value) /\ ~is_some(self.callback))

\* C13: inside drop the value slot is emptied first and the callback slot
\* second, each by exactly one step; both are empty before the callback is
\* invoked and stay empty afterwards, also when the callback panics; an
\* empty slot never becomes occupied again.
C13_SlotsTakenOnceBeforeCall ==
    /\ [](pc = "value_taken" => (~is_some(self.value) /\ is_some(self.callback)))
    /\ [](pc \in {"callback_taken", "done", "panicked"} =>
              (~is_some(self.value) /\ ~is_some(self.callback)))
    /\ [][C13_SlotSteps]_vars

C13_Witness ==
    /\ pc = "panicked"
    /\ ~is_some(self.value) /\ ~is_some(self.callback)
    /\ Len(calls) = 1
    /\ Calls(history, {"deref_mut"}) # {}

C16_OnlySetStateChangesState ==
    /\ [][(self'.state # self.state) => (Step("set_state") \/ Step("dismiss"))]_vars
    /\ [][(pc # "alive") => (self'.state = self.state)]_vars
    /\ [](pc # "alive" => self.state = LastSetState(history))
    /\ [](calls # <<>> => calls[1][2] = self.state)

C16_Witness ==
    /\ Finished
    /\ Len(history) >= 3
    /\ history[1].op = "set_state"
    /\ Calls(history, {"deref"}) # {}
    /\ Calls(history, {"deref_mut"}) # {}
    /\ self.state # new_args.state
    /\ calls[1][2] = self.state

====
